---- MODULE Spec2Model ----
(***************************************************************************)
(* A model of chatbot.py: the interactive session loop (__main__), the     *)
(* dispatcher get_response, and the grok / openai / cohere adapters.       *)
(*                                                                         *)
(* Text.  A Python str is modelled as a sequence of tokens.  A token is a  *)
(* run of characters that the program never looks inside: a word such as   *)
(* "grok-2", the two-word phrases "switch to" and "set model", one blank   *)
(* " ", one forbidden character "<", LONG, a run of 500 letters, and       *)
(* BLANKS, a run of 500 blanks.                                            *)
(* str.lower, str.strip, str.startswith, str.replace, len and the regular  *)
(* expression search are computed on these sequences as Python computes    *)
(* them on the characters.                                                 *)
(*                                                                         *)
(* Specifications.  Spec: the whole session loop, every command, explored  *)
(* while the history is short.  SpecLong: a session started on openai in   *)
(* which the user only converses, with no bound on the number of turns.    *)
(* SpecDispatch: get_response called directly with arbitrary arguments.    *)
(* SpecValidate, SpecTrim, SpecAdapter: validate_input, the history trim   *)
(* and one adapter called directly, as the unit tests call them.           *)
(* SpecLive: user turns under fair scheduling of the adapter's steps.      *)
(***************************************************************************)
EXTENDS Integers, Sequences, FiniteSets, TLC

VARIABLES
    SERVICE,               \* __main__: SERVICE, the current service name
    MODEL,                 \* __main__: MODEL, the current model name
    conversation_history,  \* __main__: conversation_history, a list of messages
    user_input,            \* __main__: user_input, the text last read by input()
    deep_search,           \* __main__: deep_search, the flag of the last user turn
    out,                   \* the last line printed by the loop
    pc,                    \* "input": waiting in input(); "adapter": inside the
                           \* adapter call of a user turn; "exit": loop left
    call,                  \* the pending adapter call: handler and filtered_args
    attempts,              \* backend calls made by the current/last adapter call
    backoff,               \* seconds tenacity sleeps before the next attempt
    arg,                   \* the arguments of a function called on its own
    result                 \* what that call returned or raised, and what it sent

vars == <<SERVICE, MODEL, conversation_history, user_input, deep_search, out,
          pc, call, attempts, backoff, arg, result>>

----------------------------------------------------------------------------
(* Tokens and the str operations the program uses.                         *)

LONG == "a*500"

Blank == " "

BLANKS == " *500"

\* The tokens str.strip() takes for whitespace.
Whitespace == {Blank, BLANKS}

\* len() of one token, in characters.
TokLen(tok) == IF tok \in {LONG, BLANKS} THEN 500 ELSE Len(tok)

RECURSIVE len(_)
len(s) == IF s = <<>> THEN 0 ELSE TokLen(Head(s)) + len(Tail(s))

\* str.lower() on one token: the tokens that hold upper-case letters.
LowerTok(tok) ==
    CASE tok = "SWITCH TO" -> "switch to"
      [] tok = "SET MODEL" -> "set model"
      [] tok = "OpenAI"    -> "openai"
      [] tok = "GPT-4o"    -> "gpt-4o"
      [] tok = "Hello"     -> "hello"
      [] tok = "Trend"     -> "trend"
      [] OTHER             -> tok

lower(s) == [i \in 1..Len(s) |-> LowerTok(s[i])]

\* str.capitalize() on one token that starts a text.
CapitalizeTok(tok) ==
    CASE tok = "grok"   -> "Grok"
      [] tok = "openai" -> "Openai"
      [] tok = "cohere" -> "Cohere"
      [] OTHER          -> tok

capitalize(s) == IF s = <<>> THEN s ELSE <<CapitalizeTok(s[1])>> \o lower(Tail(s))

\* str.strip(): leading and trailing whitespace removed.
strip(s) ==
    LET keep == {i \in 1..Len(s) : s[i] \notin Whitespace}
    IN  IF keep = {} THEN <<>>
        ELSE LET lo == CHOOSE i \in keep : \A j \in keep : i <= j
                 hi == CHOOSE i \in keep : \A j \in keep : i >= j
             IN  SubSeq(s, lo, hi)

startswith(s, prefix) ==
    Len(s) >= Len(prefix) /\ SubSeq(s, 1, Len(prefix)) = prefix

\* str.replace(old, new): every non-overlapping occurrence, left to right.
RECURSIVE replace(_, _, _)
replace(s, old, new) ==
    IF Len(s) < Len(old) THEN s
    ELSE IF startswith(s, old)
         THEN new \o replace(SubSeq(s, Len(old) + 1, Len(s)), old, new)
         ELSE <<Head(s)>> \o replace(Tail(s), old, new)

\* x in s, for a one-token x.
contains(s, tok) == \E i \in 1..Len(s) : s[i] = tok

\* re.search(r'[<>{}]', s)
Forbidden == {"<", ">", "{", "}"}

re_search_forbidden(s) == \E i \in 1..Len(s) : s[i] \in Forbidden

----------------------------------------------------------------------------
(* Module-level tables and the pure helpers.                               *)

GROK   == <<"grok">>
OPENAI == <<"openai">>
COHERE == <<"cohere">>

\* SERVICE_HANDLERS: service name -> adapter.
SERVICE_HANDLERS ==
    (GROK :> "get_grok_response") @@ (OPENAI :> "get_openai_response")
        @@ (COHERE :> "get_cohere_response")

\* SERVICE_MODELS: service name -> list of model names, the first the default.
SERVICE_MODELS ==
    (GROK :> << <<"grok-2">>, <<"grok-2-mini">> >>)
        @@ (OPENAI :> << <<"gpt-4o">>, <<"gpt-3.5-turbo">>, <<"gpt-4-turbo">> >>)
        @@ (COHERE :> << <<"command-r">>, <<"command">> >>)

\* x in lst, for a Python list.
InList(x, lst) == \E i \in 1..Len(lst) : lst[i] = x

\* SERVICE_MODELS.get(service, [])
ModelsOf(service) ==
    IF service \in DOMAIN SERVICE_MODELS THEN SERVICE_MODELS[service] ELSE <<>>

\* inspect.signature(handler).parameters, per adapter.
HandlerParams(handler) ==
    CASE handler = "get_grok_response" ->
             {"prompt", "model", "use_deep_search", "conversation_history",
              "grok_url", "grok_headers"}
      [] handler = "get_openai_response" ->
             {"prompt", "model", "conversation_history", "openai_client"}
      [] handler = "get_cohere_response" ->
             {"prompt", "model", "conversation_history", "co_client"}

\* The Config built by load_config(); None is the absent handle.
None == <<"None">>

config ==
    [grok_api_url  |-> <<"https://api.x.ai/v1/chat/completions">>,
     grok_headers  |-> <<"Authorization: Bearer XAI_API_KEY">>,
     openai_client |-> <<"openai_client">>,
     co_client     |-> <<"co_client">>]

MaxInputChars == 500

\* Mutant: the length rule is applied before the emptiness rule.
validate_input_length_first(s) ==
    IF len(s) > MaxInputChars
    THEN [is_valid |-> FALSE,
          error_msg |-> <<"Input is too long. Please keep it under 500 characters.">>]
    ELSE IF strip(s) = <<>>
    THEN [is_valid |-> FALSE,
          error_msg |-> <<"Input cannot be empty. Please provide some details.">>]
    ELSE IF re_search_forbidden(s)
    THEN [is_valid |-> FALSE,
          error_msg |-> <<"Input contains invalid characters (e.g., <, >, {}).">>]
    ELSE [is_valid |-> TRUE, error_msg |-> <<>>]

validate_input(s) ==
    IF strip(s) = <<>>
    THEN [is_valid |-> FALSE,
          error_msg |-> <<"Input cannot be empty. Please provide some details.">>]
    ELSE IF len(s) > MaxInputChars
    THEN [is_valid |-> FALSE,
          error_msg |-> <<"Input is too long. Please keep it under 500 characters.">>]
    ELSE IF re_search_forbidden(s)
    THEN [is_valid |-> FALSE,
          error_msg |-> <<"Input contains invalid characters (e.g., <, >, {}).">>]
    ELSE [is_valid |-> TRUE, error_msg |-> <<>>]

MaxMessages == 10

\* Mutant: the slice keeps the first max_messages entries, history[:max].
trim_conversation_history_head(history, max_messages) ==
    IF Len(history) > max_messages THEN SubSeq(history, 1, max_messages)
    ELSE history

\* history[-max_messages:]: Python reads -0 as 0, the start of the list.
TailSlice(history, n) ==
    LET start == IF n = 0 THEN 0
                 ELSE IF Len(history) - n > 0 THEN Len(history) - n ELSE 0
    IN  SubSeq(history, start + 1, Len(history))

trim_conversation_history(history, max_messages) ==
    IF Len(history) > max_messages THEN TailSlice(history, max_messages)
    ELSE history

fetch_x_trends(query) ==
    <<"Recent X posts suggest a rise in smart lock vulnerabilities (placeholder).">>

Message(role, content) == [role |-> role, content |-> content]

\* An exception object; str(e) is its msg.
Exc(type, msg) == [type |-> type, msg |-> msg]

----------------------------------------------------------------------------
(* get_response: validation, the common argument set, signature filtering. *)
(* It yields the exception it raises or the adapter call it makes.         *)

\* Mutant: the model check is dropped.
get_response_unchecked(prompt, service, model, deep, history, cfg) ==
    IF service \notin DOMAIN SERVICE_HANDLERS
    THEN [kind |-> "raise",
          exc |-> Exc("ValueError", <<"Unknown service: ">> \o service)]
    ELSE
    LET handler == SERVICE_HANDLERS[service]
        args == [prompt               |-> prompt,
                 model                |-> model,
                 use_deep_search      |-> IF deep THEN <<"True">> ELSE <<"False">>,
                 conversation_history |-> history,
                 grok_url             |-> IF service = GROK THEN cfg.grok_api_url ELSE None,
                 grok_headers         |-> IF service = GROK THEN cfg.grok_headers ELSE None,
                 openai_client        |-> IF service = OPENAI THEN cfg.openai_client ELSE None,
                 co_client            |-> IF service = COHERE THEN cfg.co_client ELSE None]
        filtered_args == [k \in (DOMAIN args) \cap HandlerParams(handler) |-> args[k]]
    IN  [kind |-> "call", handler |-> handler, args |-> filtered_args]

\* Mutant: handler(**args), the arguments are not filtered by the signature.
get_response_unfiltered(prompt, service, model, deep, history, cfg) ==
    IF service \notin DOMAIN SERVICE_HANDLERS
    THEN [kind |-> "raise",
          exc |-> Exc("ValueError", <<"Unknown service: ">> \o service)]
    ELSE IF ~InList(model, ModelsOf(service))
    THEN [kind |-> "raise",
          exc |-> Exc("ValueError",
                      <<"Model ">> \o model \o <<" not supported for ">> \o service)]
    ELSE
    LET handler == SERVICE_HANDLERS[service]
        prompt1 == IF deep
                   THEN prompt \o <<"\nAdditional context: ">> \o fetch_x_trends(prompt)
                   ELSE prompt
        args == [prompt               |-> prompt1,
                 model                |-> model,
                 use_deep_search      |-> IF deep THEN <<"True">> ELSE <<"False">>,
                 conversation_history |-> history,
                 grok_url             |-> IF service = GROK THEN cfg.grok_api_url ELSE None,
                 grok_headers         |-> IF service = GROK THEN cfg.grok_headers ELSE None,
                 openai_client        |-> IF service = OPENAI THEN cfg.openai_client ELSE None,
                 co_client            |-> IF service = COHERE THEN cfg.co_client ELSE None]
    IN  [kind |-> "call", handler |-> handler, args |-> args]

get_response(prompt, service, model, deep, history, cfg) ==
    IF service \notin DOMAIN SERVICE_HANDLERS
    THEN [kind |-> "raise",
          exc |-> Exc("ValueError", <<"Unknown service: ">> \o service)]
    ELSE IF ~InList(model, ModelsOf(service))
    THEN [kind |-> "raise",
          exc |-> Exc("ValueError",
                      <<"Model ">> \o model \o <<" not supported for ">> \o service)]
    ELSE
    LET handler == SERVICE_HANDLERS[service]
        prompt1 == IF deep
                   THEN prompt \o <<"\nAdditional context: ">> \o fetch_x_trends(prompt)
                   ELSE prompt
        args == [prompt               |-> prompt1,
                 model                |-> model,
                 use_deep_search      |-> IF deep THEN <<"True">> ELSE <<"False">>,
                 conversation_history |-> history,
                 grok_url             |-> IF service = GROK THEN cfg.grok_api_url ELSE None,
                 grok_headers         |-> IF service = GROK THEN cfg.grok_headers ELSE None,
                 openai_client        |-> IF service = OPENAI THEN cfg.openai_client ELSE None,
                 co_client            |-> IF service = COHERE THEN cfg.co_client ELSE None]
        filtered_args == [k \in (DOMAIN args) \cap HandlerParams(handler) |-> args[k]]
    IN  [kind |-> "call", handler |-> handler, args |-> filtered_args]

----------------------------------------------------------------------------
(* The adapters.  One backend call ends in one of Outcomes: a well-formed  *)
(* reply, a transport error (connection refused, timeout), an HTTP error   *)
(* status, or a 200 response whose body lacks the expected reply fields.   *)

Outcomes == {"ok", "transport", "http_status", "bad_body"}

BackendReply == <<"Use a deadbolt.">>

\* str(err) of the exception the backend call raises under outcome o.
ErrText(o) ==
    CASE o = "transport"   -> <<"ConnectionError">>
      [] o = "http_status" -> <<"500 Server Error">>
      [] o = "bad_body"    -> <<"'choices'">>

StopAfterAttempt == 3
WaitMultiplier == 1
WaitMin == 4
WaitMax == 10

Max2(a, b) == IF a >= b THEN a ELSE b
Min2(a, b) == IF a <= b THEN a ELSE b

\* tenacity wait_exponential(multiplier=1, min=4, max=10) after attempt n.
wait_exponential(n) ==
    Max2(Max2(0, WaitMin), Min2(WaitMultiplier * 2 ^ (n - 1), WaitMax))

\* The body of get_grok_response, run once with backend outcome o: only
\* requests.exceptions.RequestException is caught.  A Response with an error
\* status is falsy, so Details never shows its text.
\* Nothing tests grok_url or grok_headers.  With grok_url None, requests
\* raises MissingSchema, a RequestException, while preparing the request;
\* with only grok_headers None the request is sent without the key.
grok_body(args, o) ==
    IF args.grok_url = None
    THEN [kind |-> "return",
          value |-> <<"Oops", ", something broke! Error: ",
                      "Invalid URL 'None': No scheme supplied",
                      ". Details: ", "No response received">>,
          called |-> FALSE]
    ELSE
    CASE o = "ok" ->
             [kind |-> "return", value |-> BackendReply, called |-> TRUE]
      [] o \in {"transport", "http_status"} ->
             [kind |-> "return",
              value |-> <<"Oops", ", something broke! Error: ">> \o ErrText(o)
                            \o <<". Details: ", "No response received">>,
              called |-> TRUE]
      [] o = "bad_body" ->
             [kind |-> "raise", exc |-> Exc("KeyError", ErrText(o)), called |-> TRUE]

\* @retry(stop=stop_after_attempt(3), wait=wait_exponential(...)) around the
\* body: attempt number n; a returned value ends the call, an exception is
\* retried after a wait until the attempts are used up, then RetryError.
\* Mutant: the stop condition is off by one, a fourth attempt is made.
get_grok_response_fourth(args, n, o) ==
    LET r == grok_body(args, o)
    IN  IF r.kind = "return" THEN r
        ELSE IF n > StopAfterAttempt
        THEN [kind |-> "raise", exc |-> Exc("RetryError", <<"RetryError[KeyError]">>),
              called |-> TRUE]
        ELSE [kind |-> "retry", wait |-> wait_exponential(n), called |-> TRUE]

get_grok_response(args, n, o) ==
    LET r == grok_body(args, o)
    IN  IF r.kind = "return" THEN r
        ELSE IF n >= StopAfterAttempt
        THEN [kind |-> "raise", exc |-> Exc("RetryError", <<"RetryError[KeyError]">>),
              called |-> TRUE]
        ELSE [kind |-> "retry", wait |-> wait_exponential(n), called |-> TRUE]

get_openai_response(args, n, o) ==
    IF args.openai_client = None
    THEN [kind |-> "raise",
          exc |-> Exc("ValueError", <<"OpenAI client must be provided">>),
          called |-> FALSE]
    ELSE IF o = "ok"
    THEN [kind |-> "return", value |-> BackendReply, called |-> TRUE]
    ELSE [kind |-> "raise",
          exc |-> Exc("ValueError", <<"OpenAI API error: ">> \o ErrText(o)),
          called |-> TRUE]

\* Mutant: the cohere adapter re-raises a backend failure, as openai's does.
get_cohere_response_raising(args, n, o) ==
    IF args.co_client = None
    THEN [kind |-> "raise",
          exc |-> Exc("ValueError", <<"Cohere client must be provided">>),
          called |-> FALSE]
    ELSE IF o = "ok"
    THEN [kind |-> "return", value |-> BackendReply, called |-> TRUE]
    ELSE [kind |-> "raise",
          exc |-> Exc("ValueError", <<"Cohere API error: ">> \o ErrText(o)),
          called |-> TRUE]

get_cohere_response(args, n, o) ==
    IF args.co_client = None
    THEN [kind |-> "raise",
          exc |-> Exc("ValueError", <<"Cohere client must be provided">>),
          called |-> FALSE]
    ELSE IF o = "ok"
    THEN [kind |-> "return", value |-> BackendReply, called |-> TRUE]
    ELSE [kind |-> "return",
          value |-> <<"Oops", ", something broke with Cohere! Error: ">> \o ErrText(o),
          called |-> TRUE]

\* "\n".join(parts) and the like.
RECURSIVE join(_, _)
join(sep, parts) ==
    IF parts = <<>> THEN <<>>
    ELSE IF Len(parts) = 1 THEN parts[1]
    ELSE parts[1] \o sep \o join(sep, Tail(parts))

build_prompt(base_role, prompt, history, extra_instructions) ==
    LET base_prompt == <<"Act as a ", base_role, ". ">> \o extra_instructions
        history_text ==
            join(<<"\n">>, [i \in 1..Len(history) |->
                               <<history[i].role, ": ">> \o history[i].content])
    IN  IF history # <<>> THEN history_text \o <<"\n">> \o base_prompt \o prompt
        ELSE base_prompt \o prompt

\* What get_grok_response hands to requests.post.
grok_request(args) ==
    LET extra == IF args.use_deep_search = <<"True">>
                 THEN <<"Use DeepSearch to analyze recent X posts and provide insights. ">>
                 ELSE <<>>
        full_prompt == build_prompt("physical security consultant", args.prompt,
                                    args.conversation_history, extra)
    IN  [url |-> args.grok_url,
         headers |-> args.grok_headers,
         json |-> [model |-> args.model,
                   messages |-> <<Message("user", full_prompt)>>,
                   max_tokens |-> 300]]

\* What get_openai_response hands to chat.completions.create.
openai_request(args) ==
    LET full_prompt == build_prompt("physical security consultant", args.prompt,
                                    args.conversation_history, <<>>)
        h == args.conversation_history
    IN  [model |-> args.model,
         messages |-> [i \in 1..Len(h) |-> Message(h[i].role, h[i].content)]
                          \o <<Message("user", full_prompt)>>,
         max_tokens |-> 300]

\* The chat_history list get_cohere_response builds from the history.
cohere_chat_history(history) ==
    [i \in 1..Len(history) |->
        [role |-> IF history[i].role = "user" THEN "User" ELSE "Chatbot",
         message |-> history[i].content]]

\* What get_cohere_response hands to co_client.chat.
cohere_request(args) ==
    [message |-> args.prompt,
     preamble |-> build_prompt("physical security consultant", <<>>,
                               args.conversation_history, <<>>),
     chat_history |-> cohere_chat_history(args.conversation_history),
     model |-> args.model,
     max_tokens |-> 300]

\* The request the pending call c makes on one attempt.
backend_request(c) ==
    CASE c.handler = "get_grok_response"   -> grok_request(c.args)
      [] c.handler = "get_openai_response" -> openai_request(c.args)
      [] c.handler = "get_cohere_response" -> cohere_request(c.args)

\* handler(**filtered_args): attempt n of the pending call, backend outcome o.
adapter_step(c, n, o) ==
    CASE c.handler = "get_grok_response"   -> get_grok_response(c.args, n, o)
      [] c.handler = "get_openai_response" -> get_openai_response(c.args, n, o)
      [] c.handler = "get_cohere_response" -> get_cohere_response(c.args, n, o)

----------------------------------------------------------------------------
(* The session loop of __main__.                                           *)

NoCall == [kind |-> "none"]

SwitchPrefix == <<"switch to", Blank>>
SetModelPrefix == <<"set model", Blank>>

\* The command-line arguments parse_args() can yield: --service is one of
\* the three choices; --model is absent (the empty list here), or any text.
ServiceChoices == {GROK, OPENAI, COHERE}

ModelArgs ==
    {<<>>, << <<>> >>, << <<"my-model">> >>, << <<"grok-2-mini">> >>, << <<"gpt-4o">> >>}

\* args.model or SERVICE_MODELS[SERVICE][0]: None and "" are falsy.
StartModel(service, model_arg) ==
    IF model_arg = <<>> \/ model_arg[1] = <<>> THEN SERVICE_MODELS[service][1]
    ELSE model_arg[1]

\* The texts input() returns in the model.
Inputs ==
    { <<"help">>, <<"exit">>,
      <<"switch to", Blank, "openai">>, <<"switch to", Blank, "cohere">>,
      <<"switch to", Blank, "grok">>, <<"SWITCH TO", Blank, "OpenAI">>,
      <<"switch to", Blank, "anthropic">>,
      <<"switch to", Blank, "switch to", Blank, "cohere">>,
      <<"set model", Blank, "grok-2-mini">>, <<"set model", Blank, "gpt-4-turbo">>,
      <<"set model", Blank, "command">>, <<"set model", Blank, "GPT-4o">>,
      <<"set model", Blank, "claude-3-opus">>,
      <<"set model", Blank, "set model", Blank, "gpt-3.5-turbo">>,
      <<"Hello">>,
      <<>>, <<Blank>>, <<"Hello", "<">>, <<LONG, "!">>,
      <<"switch to", Blank, "openai", ">">> }

\* Mutant: the commands are recognised before the text is validated.
Branch_commands_first(t) ==
    IF lower(t) = <<"help">> THEN "help"
    ELSE IF lower(t) \in {<<"exit">>, <<"quit">>} THEN "exit"
    ELSE IF startswith(lower(t), SwitchPrefix) THEN "switch"
    ELSE IF startswith(lower(t), SetModelPrefix) THEN "set model"
    ELSE IF ~validate_input(t).is_valid THEN "invalid"
    ELSE "turn"

\* The if/elif chain of the loop body, after validation.
Branch(t) ==
    IF ~validate_input(t).is_valid THEN "invalid"
    ELSE IF lower(t) = <<"help">> THEN "help"
    ELSE IF lower(t) \in {<<"exit">>, <<"quit">>} THEN "exit"
    ELSE IF startswith(lower(t), SwitchPrefix) THEN "switch"
    ELSE IF startswith(lower(t), SetModelPrefix) THEN "set model"
    ELSE "turn"

AvailableLine == <<"Available services and models: SERVICE_MODELS">>

Init ==
    /\ \E service \in ServiceChoices, model_arg \in ModelArgs :
          /\ SERVICE = service
          /\ MODEL = StartModel(service, model_arg)
    /\ conversation_history = <<>>
    /\ user_input = <<>>
    /\ deep_search = FALSE
    /\ out = AvailableLine
    /\ pc = "input"
    /\ call = NoCall
    /\ attempts = 0
    /\ backoff = 0
    /\ arg = NoCall
    /\ result = NoCall

\* validate_input rejects the text: print(error_msg); continue.
Rejected(t) ==
    /\ pc = "input"
    /\ Branch(t) = "invalid"
    /\ user_input' = t
    /\ out' = validate_input(t).error_msg
    /\ UNCHANGED <<arg, result, SERVICE, MODEL, conversation_history,
                   deep_search, pc, call, attempts, backoff>>

Help(t) ==
    /\ pc = "input"
    /\ Branch(t) = "help"
    /\ user_input' = t
    /\ out' = AvailableLine
    /\ UNCHANGED <<arg, result, SERVICE, MODEL, conversation_history,
                   deep_search, pc, call, attempts, backoff>>

Exit(t) ==
    /\ pc = "input"
    /\ Branch(t) = "exit"
    /\ user_input' = t
    /\ out' = <<"Goodbye!">>
    /\ pc' = "exit"
    /\ UNCHANGED <<arg, result, SERVICE, MODEL, conversation_history,
                   deep_search, call, attempts, backoff>>

SwitchTo(t) ==
    /\ pc = "input"
    /\ Branch(t) = "switch"
    /\ user_input' = t
    /\ LET new_service == strip(replace(lower(t), SwitchPrefix, <<>>))
       IN  IF new_service \in DOMAIN SERVICE_HANDLERS
           THEN /\ SERVICE' = new_service
                /\ MODEL' = SERVICE_MODELS[new_service][1]
                /\ out' = <<"Switched to ">> \o capitalize(new_service)
                              \o <<" (model: ">> \o SERVICE_MODELS[new_service][1]
                              \o <<")">>
           ELSE /\ out' = <<"Service ">> \o new_service \o <<" not recognized.">>
                /\ UNCHANGED <<SERVICE, MODEL>>
    /\ UNCHANGED <<arg, result, conversation_history, deep_search, pc, call,
                   attempts, backoff>>

SetModel(t) ==
    /\ pc = "input"
    /\ Branch(t) = "set model"
    /\ user_input' = t
    /\ LET new_model == strip(replace(lower(t), SetModelPrefix, <<>>))
       IN  IF InList(new_model, SERVICE_MODELS[SERVICE])
           THEN /\ MODEL' = new_model
                /\ out' = <<"Model set to ">> \o new_model \o <<" for ">>
                              \o capitalize(SERVICE)
           ELSE /\ out' = <<"Model ">> \o new_model \o <<" not available for ">>
                              \o SERVICE
                /\ UNCHANGED MODEL
    /\ UNCHANGED <<arg, result, SERVICE, conversation_history, deep_search,
                   pc, call, attempts, backoff>>

SorryLine(exc) == <<"Sorry, something went wrong: ">> \o exc.msg

SaysLine(service, reply) == capitalize(service) \o <<" says: ">> \o reply

\* Mutant: the lower-cased command text is stored as the user message.
UserTurn_lowered(t) ==
    /\ pc = "input"
    /\ Branch(t) = "turn"
    /\ user_input' = t
    /\ LET history == trim_conversation_history(
                          Append(conversation_history, Message("user", lower(t))),
                          MaxMessages)
           flag == contains(lower(t), "trend")
           r == get_response(t, SERVICE, MODEL, flag, history, config)
       IN  /\ conversation_history' = history
           /\ deep_search' = flag
           /\ attempts' = 0
           /\ backoff' = 0
           /\ IF r.kind = "raise"
              THEN /\ out' = SorryLine(r.exc)
                   /\ UNCHANGED <<pc, call>>
              ELSE /\ pc' = "adapter"
                   /\ call' = r
                   /\ UNCHANGED out
    /\ UNCHANGED <<arg, result, SERVICE, MODEL>>

\* Mutant: the history is trimmed before the user message is appended.
UserTurn_trim_first(t) ==
    /\ pc = "input"
    /\ Branch(t) = "turn"
    /\ user_input' = t
    /\ LET history == Append(trim_conversation_history(conversation_history,
                                                        MaxMessages),
                              Message("user", t))
           flag == contains(lower(t), "trend")
           r == get_response(t, SERVICE, MODEL, flag, history, config)
       IN  /\ conversation_history' = history
           /\ deep_search' = flag
           /\ attempts' = 0
           /\ backoff' = 0
           /\ IF r.kind = "raise"
              THEN /\ out' = SorryLine(r.exc)
                   /\ UNCHANGED <<pc, call>>
              ELSE /\ pc' = "adapter"
                   /\ call' = r
                   /\ UNCHANGED out
    /\ UNCHANGED <<arg, result, SERVICE, MODEL>>

\* A user turn up to the adapter call: append, trim, get_response's checks.
\* An exception raised by get_response is caught by the loop.
UserTurn(t) ==
    /\ pc = "input"
    /\ Branch(t) = "turn"
    /\ user_input' = t
    /\ LET history == trim_conversation_history(
                          Append(conversation_history, Message("user", t)),
                          MaxMessages)
           flag == contains(lower(t), "trend")
           r == get_response(t, SERVICE, MODEL, flag, history, config)
       IN  /\ conversation_history' = history
           /\ deep_search' = flag
           /\ attempts' = 0
           /\ backoff' = 0
           /\ IF r.kind = "raise"
              THEN /\ out' = SorryLine(r.exc)
                   /\ UNCHANGED <<pc, call>>
              ELSE /\ pc' = "adapter"
                   /\ call' = r
                   /\ UNCHANGED out
    /\ UNCHANGED <<arg, result, SERVICE, MODEL>>

\* The adapter returns: print the reply, append it as the assistant message.
AdapterReturn(o) ==
    /\ pc = "adapter"
    /\ LET r == adapter_step(call, attempts + 1, o)
       IN  /\ r.kind = "return"
           /\ attempts' = IF r.called THEN attempts + 1 ELSE attempts
           /\ out' = SaysLine(SERVICE, r.value)
           /\ conversation_history' =
                  Append(conversation_history, Message("assistant", r.value))
    /\ pc' = "input"
    /\ call' = NoCall
    /\ backoff' = 0
    /\ UNCHANGED <<arg, result, SERVICE, MODEL, user_input, deep_search>>

\* Mutant: the except clause also appends the error text as a reply.
AdapterRaise_appending(o) ==
    /\ pc = "adapter"
    /\ LET r == adapter_step(call, attempts + 1, o)
       IN  /\ r.kind = "raise"
           /\ attempts' = IF r.called THEN attempts + 1 ELSE attempts
           /\ out' = SorryLine(r.exc)
           /\ conversation_history' =
                  Append(conversation_history, Message("assistant", r.exc.msg))
    /\ pc' = "input"
    /\ call' = NoCall
    /\ backoff' = 0
    /\ UNCHANGED <<arg, result, SERVICE, MODEL, user_input, deep_search>>

\* Mutant: the except clause dispatches the same call again.
AdapterRaise_redispatch(o) ==
    /\ pc = "adapter"
    /\ LET r == adapter_step(call, attempts + 1, o)
       IN  /\ r.kind = "raise"
           /\ out' = SorryLine(r.exc)
    /\ attempts' = 0
    /\ backoff' = 0
    /\ UNCHANGED <<arg, result, SERVICE, MODEL, user_input, deep_search,
                   conversation_history, pc, call>>

\* The adapter raises: the loop's except clause prints and goes on.
AdapterRaise(o) ==
    /\ pc = "adapter"
    /\ LET r == adapter_step(call, attempts + 1, o)
       IN  /\ r.kind = "raise"
           /\ attempts' = IF r.called THEN attempts + 1 ELSE attempts
           /\ out' = SorryLine(r.exc)
    /\ pc' = "input"
    /\ call' = NoCall
    /\ backoff' = 0
    /\ UNCHANGED <<arg, result, SERVICE, MODEL, user_input, deep_search,
                   conversation_history>>

\* tenacity catches the exception, sleeps and runs the body again.
AdapterRetry(o) ==
    /\ pc = "adapter"
    /\ LET r == adapter_step(call, attempts + 1, o)
       IN  /\ r.kind = "retry"
           /\ attempts' = attempts + 1
           /\ backoff' = r.wait
    /\ UNCHANGED <<arg, result, SERVICE, MODEL, user_input, deep_search,
                   conversation_history, out, pc, call>>

\* The session is explored while the history is shorter than this.
MaxExploredHistory == 3

Next ==
    \/ \E t \in Inputs : Rejected(t)
    \/ \E t \in Inputs : Help(t)
    \/ \E t \in Inputs : Exit(t)
    \/ \E t \in Inputs : SwitchTo(t)
    \/ \E t \in Inputs : SetModel(t)
    \/ \E t \in Inputs : Len(conversation_history) < MaxExploredHistory /\ UserTurn(t)
    \/ \E o \in Outcomes : AdapterReturn(o)
    \/ \E o \in Outcomes : AdapterRaise(o)
    \/ \E o \in Outcomes : AdapterRetry(o)

Spec == Init /\ [][Next]_vars

----------------------------------------------------------------------------
(* A long plain conversation: the program started with --service openai,   *)
(* the user only converses, for any number of turns.                       *)

InitLong == Init /\ SERVICE = OPENAI

LongInputs == {<<"Hello">>}

NextLong ==
    \/ \E t \in LongInputs : UserTurn(t)
    \/ \E o \in Outcomes : AdapterReturn(o)
    \/ \E o \in Outcomes : AdapterRaise(o)

SpecLong == InitLong /\ [][NextLong]_vars

----------------------------------------------------------------------------
(* get_response called directly, as test_chatbot.py calls it: the service, *)
(* the model, the prompt, the flag and the history are the caller's.       *)

DispatchServices == ServiceChoices \cup {<<"anthropic">>, <<>>}

DispatchModels ==
    {<<"grok-2">>, <<"grok-2-mini">>, <<"gpt-4o">>, <<"gpt-3.5-turbo">>,
     <<"gpt-4-turbo">>, <<"command-r">>, <<"command">>, <<"invalid-model">>, <<>>}

\* setUp's two-message history.
TestHistory == <<Message("user", <<"Hello">>), Message("assistant", <<"Hi there">>)>>

InitDispatch ==
    /\ SERVICE \in DispatchServices
    /\ MODEL \in DispatchModels
    /\ conversation_history \in {<<>>, TestHistory}
    /\ user_input \in {<<"Test prompt">>}
    /\ deep_search \in BOOLEAN
    /\ out = <<>>
    /\ pc = "call"
    /\ call = NoCall
    /\ attempts = 0
    /\ backoff = 0
    /\ arg = NoCall
    /\ result = NoCall

\* get_response up to the handler call; a raised ValueError reaches the caller.
Dispatch ==
    /\ pc = "call"
    /\ LET r == get_response(user_input, SERVICE, MODEL, deep_search,
                             conversation_history, config)
       IN  IF r.kind = "raise"
           THEN /\ pc' = "raised"
                /\ out' = r.exc.msg
                /\ UNCHANGED call
           ELSE /\ pc' = "adapter"
                /\ call' = r
                /\ UNCHANGED out
    /\ UNCHANGED <<arg, result, SERVICE, MODEL, conversation_history,
                   user_input, deep_search, attempts, backoff>>

\* Mutant: the adapter appends its reply to the history it was given.
DispatchReturn_appending(o) ==
    /\ pc = "adapter"
    /\ LET r == adapter_step(call, attempts + 1, o)
       IN  /\ r.kind = "return"
           /\ attempts' = IF r.called THEN attempts + 1 ELSE attempts
           /\ out' = r.value
           /\ conversation_history' =
                  Append(conversation_history, Message("assistant", r.value))
    /\ pc' = "returned"
    /\ call' = NoCall
    /\ backoff' = 0
    /\ UNCHANGED <<arg, result, SERVICE, MODEL, user_input, deep_search>>

\* The handler's return value is get_response's.
DispatchReturn(o) ==
    /\ pc = "adapter"
    /\ LET r == adapter_step(call, attempts + 1, o)
       IN  /\ r.kind = "return"
           /\ attempts' = IF r.called THEN attempts + 1 ELSE attempts
           /\ out' = r.value
    /\ pc' = "returned"
    /\ call' = NoCall
    /\ backoff' = 0
    /\ UNCHANGED <<arg, result, SERVICE, MODEL, conversation_history,
                   user_input, deep_search>>

DispatchRaise(o) ==
    /\ pc = "adapter"
    /\ LET r == adapter_step(call, attempts + 1, o)
       IN  /\ r.kind = "raise"
           /\ attempts' = IF r.called THEN attempts + 1 ELSE attempts
           /\ out' = r.exc.msg
    /\ pc' = "raised"
    /\ call' = NoCall
    /\ backoff' = 0
    /\ UNCHANGED <<arg, result, SERVICE, MODEL, conversation_history,
                   user_input, deep_search>>

NextDispatch ==
    \/ Dispatch
    \/ \E o \in Outcomes : DispatchReturn(o)
    \/ \E o \in Outcomes : DispatchRaise(o)
    \/ \E o \in Outcomes : AdapterRetry(o)

SpecDispatch == InitDispatch /\ [][NextDispatch]_vars

----------------------------------------------------------------------------
(* validate_input called directly, as test_chatbot.py calls it, on every   *)
(* text of up to MaxTextTokens tokens.                                     *)

MaxTextTokens == 3

ValidateTokens == {Blank, BLANKS, "lock", "<", "}", LONG}

ValidateTexts == UNION {[1..n -> ValidateTokens] : n \in 0..MaxTextTokens}

\* The session variables of a program that only calls a function.
NoSession ==
    /\ SERVICE = GROK
    /\ MODEL = SERVICE_MODELS[GROK][1]
    /\ conversation_history = <<>>
    /\ user_input = <<>>
    /\ deep_search = FALSE
    /\ out = <<>>
    /\ call = NoCall
    /\ attempts = 0
    /\ backoff = 0

InitValidate ==
    /\ NoSession
    /\ pc = "call"
    /\ arg \in {[fn |-> "validate_input", user_input |-> s] : s \in ValidateTexts}
    /\ result = NoCall

ValidateInput ==
    /\ pc = "call"
    /\ arg.fn = "validate_input"
    /\ result' = validate_input(arg.user_input)
    /\ pc' = "returned"
    /\ UNCHANGED <<SERVICE, MODEL, conversation_history, user_input, deep_search, out,
                   call, attempts, backoff, arg>>

NextValidate == ValidateInput

SpecValidate == InitValidate /\ [][NextValidate]_vars

----------------------------------------------------------------------------
(* trim_conversation_history called directly, as test_chatbot.py calls it, *)
(* on the histories "Msg 0" .. "Msg n-1" and every small maximum.          *)

MaxTrimLen == 15

MaxTrimMax == 11

\* [{"role": "user", "content": f"Msg {i}"} for i in range(n)]
MsgHistory(n) == [i \in 1..n |-> Message("user", <<"Msg ", ToString(i - 1)>>)]

InitTrim ==
    /\ NoSession
    /\ pc = "call"
    /\ arg \in {[fn |-> "trim_conversation_history", history |-> MsgHistory(n),
                  max_messages |-> m] : n \in 0..MaxTrimLen, m \in 0..MaxTrimMax}
    /\ result = NoCall

Trim ==
    /\ pc = "call"
    /\ arg.fn = "trim_conversation_history"
    /\ result' = trim_conversation_history(arg.history, arg.max_messages)
    /\ pc' = "returned"
    /\ UNCHANGED <<SERVICE, MODEL, conversation_history, user_input, deep_search, out,
                   call, attempts, backoff, arg>>

NextTrim == Trim

SpecTrim == InitTrim /\ [][NextTrim]_vars

----------------------------------------------------------------------------
(* One adapter called directly: any of its handles may be absent (None,    *)
(* the parameter's default), and the history may hold a system message.    *)

\* A history that opens with a system message.
SystemHistory ==
    <<Message("system", <<"Be brief.">>)>> \o TestHistory

AdapterHistories == {<<>>, TestHistory, SystemHistory}

GrokHandles ==
    {[grok_url |-> u, grok_headers |-> h] :
        u \in {None, config.grok_api_url}, h \in {None, config.grok_headers}}

\* The keyword arguments of a direct adapter call, per adapter.
AdapterCalls ==
    {[fn |-> "get_grok_response",
      args |-> [prompt |-> <<"Test prompt">>, model |-> <<"grok-2">>,
                use_deep_search |-> d, conversation_history |-> hist,
                grok_url |-> g.grok_url, grok_headers |-> g.grok_headers]] :
        d \in {<<"True">>, <<"False">>}, hist \in AdapterHistories, g \in GrokHandles}
    \cup
    {[fn |-> "get_openai_response",
      args |-> [prompt |-> <<"Test prompt">>, model |-> <<"gpt-4o">>,
                conversation_history |-> hist, openai_client |-> c]] :
        hist \in AdapterHistories, c \in {None, config.openai_client}}
    \cup
    {[fn |-> "get_cohere_response",
      args |-> [prompt |-> <<"Test prompt">>, model |-> <<"command-r">>,
                conversation_history |-> hist, co_client |-> c]] :
        hist \in AdapterHistories, c \in {None, config.co_client}}

InitAdapter ==
    /\ NoSession
    /\ arg \in AdapterCalls
    /\ result = NoCall
    /\ pc = "adapter"

\* The caller enters the adapter.
AdapterCall ==
    /\ pc = "adapter"
    /\ call = NoCall
    /\ call' = [kind |-> "call", handler |-> arg.fn, args |-> arg.args]
    /\ UNCHANGED <<SERVICE, MODEL, conversation_history, user_input, deep_search, out,
                   pc, attempts, backoff, arg, result>>

\* The adapter returns to its caller; sent is the request of its last
\* attempt, if it made one.
AdapterCallReturn(o) ==
    /\ pc = "adapter"
    /\ call # NoCall
    /\ LET r == adapter_step(call, attempts + 1, o)
       IN  /\ r.kind = "return"
           /\ attempts' = IF r.called THEN attempts + 1 ELSE attempts
           /\ result' = [kind |-> "return", value |-> r.value,
                         sent |-> IF r.called THEN backend_request(call) ELSE NoCall]
    /\ pc' = "returned"
    /\ call' = NoCall
    /\ backoff' = 0
    /\ UNCHANGED <<SERVICE, MODEL, conversation_history, user_input, deep_search, out,
                   arg>>

AdapterCallRaise(o) ==
    /\ pc = "adapter"
    /\ call # NoCall
    /\ LET r == adapter_step(call, attempts + 1, o)
       IN  /\ r.kind = "raise"
           /\ attempts' = IF r.called THEN attempts + 1 ELSE attempts
           /\ result' = [kind |-> "raise", exc |-> r.exc,
                         sent |-> IF r.called THEN backend_request(call) ELSE NoCall]
    /\ pc' = "raised"
    /\ call' = NoCall
    /\ backoff' = 0
    /\ UNCHANGED <<SERVICE, MODEL, conversation_history, user_input, deep_search, out,
                   arg>>

NextAdapter ==
    \/ AdapterCall
    \/ \E o \in Outcomes : AdapterCallReturn(o)
    \/ \E o \in Outcomes : AdapterCallRaise(o)
    \/ \E o \in Outcomes : call # NoCall /\ AdapterRetry(o)

SpecAdapter == InitAdapter /\ [][NextAdapter]_vars

----------------------------------------------------------------------------
(* User turns under fair scheduling.  The adapter call is a synchronous    *)
(* call of the one thread of the program: requests.post has timeout=10,    *)
(* tenacity sleeps at most WaitMax seconds, so an attempt that is under    *)
(* way ends and the next step of the call is taken.  Nothing obliges the   *)
(* user to type another line.                                              *)

AdapterStep ==
    \E o \in Outcomes : AdapterReturn(o) \/ AdapterRaise(o) \/ AdapterRetry(o)

NextLive ==
    \/ \E t \in LongInputs :
           Len(conversation_history) < MaxExploredHistory /\ UserTurn(t)
    \/ \E o \in Outcomes : AdapterReturn(o)
    \/ \E o \in Outcomes : AdapterRaise(o)
    \/ \E o \in Outcomes : AdapterRetry(o)

SpecLive == Init /\ [][NextLive]_vars /\ WF_vars(AdapterStep)

----------------------------------------------------------------------------
(* Properties of the session loop.                                         *)

Last(h) == h[Len(h)]

SorryPrefix == "Sorry, something went wrong: "

\* A text begins with "Oops".
BeginsWithOops(text) == Len(text) >= 1 /\ text[1] = "Oops"

\* C1: the history never holds more than the configured maximum of 10
\* messages, neither after the user message is appended and trimmed nor
\* after the assistant reply is appended (checked under SpecLong).
C1_HistoryBounded == Len(conversation_history) <= 10

\* C2: in every reachable state of the session, from the start built from
\* --service and --model on, the current model is one of the models
\* declared for the current service.
C2_ModelOfService ==
    \E i \in 1..Len(SERVICE_MODELS[SERVICE]) : SERVICE_MODELS[SERVICE][i] = MODEL

\* C3: a backend call that fails with a transport failure while grok or
\* cohere serves the turn ends the adapter call with a returned string that
\* begins with "Oops"; the loop appends it as the assistant message right
\* after the turn's user message and waits for the next input.
C3_SoftFailureBecomesReply ==
    [][ (/\ pc = "adapter"
         /\ SERVICE \in {GROK, COHERE}
         /\ \/ AdapterReturn("transport")
            \/ AdapterRaise("transport")
            \/ AdapterRetry("transport"))
        => LET h == conversation_history'
               n == Len(h)
           IN  /\ pc' = "input"
               /\ n >= 2
               /\ SubSeq(h, 1, n - 1) = conversation_history
               /\ h[n - 1] = [role |-> "user", content |-> user_input]
               /\ h[n].role = "assistant"
               /\ BeginsWithOops(h[n].content)
               /\ out'[1] # SorryPrefix ]_vars

\* C3 witness: grok and then cohere each answered a turn with an "Oops" reply.
C3_Witness ==
    /\ pc = "input"
    /\ conversation_history =
           << [role |-> "user", content |-> <<"Hello">>],
              [role |-> "assistant",
               content |-> <<"Oops", ", something broke! Error: ", "ConnectionError",
                             ". Details: ", "No response received">>],
              [role |-> "user", content |-> <<"Hello">>],
              [role |-> "assistant",
               content |-> <<"Oops", ", something broke with Cohere! Error: ",
                             "ConnectionError">>] >>

\* C4: a user turn whose dispatch raises is caught by the loop, which prints
\* the error and waits for the next input: the turn's user message is the
\* last history entry, no assistant message was appended, and the current
\* service and model are as before.
C4_RaisedTurnKeepsUserMessage ==
    [][ (pc' = "input" /\ out'[1] = SorryPrefix)
        => LET h == conversation_history'
           IN  /\ Len(h) >= 1
               /\ Last(h) = [role |-> "user", content |-> user_input']
               /\ \/ /\ pc = "adapter"
                     /\ h = conversation_history
                  \/ /\ pc = "input"
                     /\ Len(h) <= Len(conversation_history) + 1
                     /\ \A i \in 1..(Len(h) - 1) :
                            h[i] = conversation_history[
                                       i + Len(conversation_history) + 1 - Len(h)]
               /\ SERVICE' = SERVICE
               /\ MODEL' = MODEL ]_vars

\* C4 witness: an openai backend failure ended the second turn of a session.
C4_Witness ==
    /\ pc = "input"
    /\ out[1] = SorryPrefix
    /\ out[2] = "OpenAI API error: "
    /\ Len(conversation_history) = 3
    /\ conversation_history[2].role = "assistant"
    /\ conversation_history[3] = [role |-> "user", content |-> user_input]

----------------------------------------------------------------------------
(* Properties of the grok adapter and its retry wrapper.                   *)

InGrokCall == pc = "adapter" /\ call.handler = "get_grok_response"

\* C5: the grok adapter never propagates a failure: whatever the outcomes
\* of its attempts, the call ends with a returned string, which the loop
\* prints and appends as the assistant message; it does not end by raising.
C5_GrokAlwaysReturns ==
    [][ (InGrokCall /\ pc' = "input")
        => /\ out'[1] # SorryPrefix
           /\ Len(conversation_history') = Len(conversation_history) + 1
           /\ Last(conversation_history').role = "assistant" ]_vars

\* C6: the grok adapter returns its "Oops" string only on final failure,
\* after the third failed attempt; an earlier failed attempt is followed by
\* a backoff wait and another attempt.
C6_OopsOnlyAfterThirdAttempt ==
    [][ (/\ InGrokCall
         /\ pc' = "input"
         /\ Len(conversation_history') = Len(conversation_history) + 1
         /\ BeginsWithOops(Last(conversation_history').content))
        => attempts' = 3 ]_vars

\* C7: a call of the grok adapter makes at least 1 and at most 3 HTTP
\* attempts; a call of the openai or cohere adapter makes at most 1 client
\* call.  attempts' is the number made once the step is taken.
C7_AttemptsBounded ==
    [][ pc = "adapter"
        => IF call.handler = "get_grok_response"
           THEN 1 <= attempts' /\ attempts' <= 3
           ELSE attempts' <= 1 ]_vars

\* C7 witness: a grok call used all three attempts, the third one answered.
C7_Witness ==
    /\ pc = "input"
    /\ SERVICE = GROK
    /\ attempts = 3
    /\ Len(conversation_history) = 2
    /\ Last(conversation_history) = [role |-> "assistant", content |-> BackendReply]

----------------------------------------------------------------------------
(* Properties of get_response and of the loop's commands.                  *)

KnownServices == {<<"grok">>, <<"openai">>, <<"cohere">>}

\* C8: get_response validates before any backend is called: with a service
\* name that is not a known service it fails with "Unknown service",
\* whatever the model; with a known service and a model outside that
\* service's declared models it fails with "Model ... not supported"; in
\* both cases no adapter is invoked and no backend call is made.
C8_ValidatesBeforeCalling ==
    pc # "call" =>
        IF SERVICE \notin KnownServices
        THEN /\ pc = "raised"
             /\ out = <<"Unknown service: ">> \o SERVICE
             /\ call = NoCall
             /\ attempts = 0
        ELSE (\A i \in 1..Len(SERVICE_MODELS[SERVICE]) :
                  SERVICE_MODELS[SERVICE][i] # MODEL)
             => /\ pc = "raised"
                /\ out = <<"Model ">> \o MODEL \o <<" not supported for ">> \o SERVICE
                /\ call = NoCall
                /\ attempts = 0

\* C8 witness: an unknown service was refused although the model is one a
\* known service declares.
C8_Witness ==
    /\ pc = "raised"
    /\ SERVICE = <<"anthropic">>
    /\ MODEL = <<"gpt-4o">>
    /\ out = <<"Unknown service: ", "anthropic">>
    /\ attempts = 0

\* The text after the command word of 'switch to <service>' / 'set model
\* <model>', read as the loop reads commands: case-insensitively, blanks
\* around it ignored.
CommandArgument(t, prefix) == strip(SubSeq(lower(t), Len(prefix) + 1, Len(t)))

\* C9: 'switch to <service>': with a known service name the current service
\* becomes it and the current model that service's first model; otherwise
\* both stay; either way the history is unchanged and no backend is called.
C9_SwitchTo ==
    [][ (/\ pc = "input"
         /\ validate_input(user_input').is_valid
         /\ startswith(lower(user_input'), SwitchPrefix))
        => LET service == CommandArgument(user_input', SwitchPrefix)
           IN  /\ IF service \in KnownServices
                  THEN SERVICE' = service /\ MODEL' = SERVICE_MODELS[service][1]
                  ELSE SERVICE' = SERVICE /\ MODEL' = MODEL
               /\ conversation_history' = conversation_history
               /\ pc' = "input"
               /\ call' = NoCall
               /\ attempts' = attempts ]_vars

\* C10: 'set model <model>': with a model of the current service the
\* current model becomes it; otherwise it stays; either way the current
\* service and the history are unchanged and no backend is called.
C10_SetModel ==
    [][ (/\ pc = "input"
         /\ validate_input(user_input').is_valid
         /\ startswith(lower(user_input'), SetModelPrefix))
        => LET model == CommandArgument(user_input', SetModelPrefix)
           IN  /\ IF \E i \in 1..Len(SERVICE_MODELS[SERVICE]) :
                         SERVICE_MODELS[SERVICE][i] = model
                  THEN MODEL' = model
                  ELSE MODEL' = MODEL
               /\ SERVICE' = SERVICE
               /\ conversation_history' = conversation_history
               /\ pc' = "input"
               /\ call' = NoCall
               /\ attempts' = attempts ]_vars

\* C11: a user turn whose dispatch returns a reply r for the validated text
\* t appends exactly two messages, user/t with t as it was typed and then
\* assistant/r: the user message when the turn starts (from an empty history
\* the history is then exactly that message), nothing while the adapter
\* runs, and the printed reply when the adapter returns.
C11_TurnAppendsUserThenReply ==
    [][ LET h == conversation_history
            h2 == conversation_history'
            user == [role |-> "user", content |-> user_input']
        IN  /\ (pc = "input" /\ pc' = "adapter")
                => /\ Len(h2) >= 1
                   /\ Last(h2) = user
                   /\ Len(h2) <= Len(h) + 1
                   /\ \A i \in 1..(Len(h2) - 1) : h2[i] = h[i + Len(h) + 1 - Len(h2)]
                   /\ h = <<>> => h2 = <<user>>
            /\ (pc = "adapter" /\ pc' = "adapter") => h2 = h /\ user_input' = user_input
            /\ (pc = "adapter" /\ pc' = "input" /\ out'[1] # SorryPrefix)
                => /\ Len(h) >= 1
                   /\ Last(h) = user
                   /\ Len(h2) = Len(h) + 1
                   /\ SubSeq(h2, 1, Len(h)) = h
                   /\ Last(h2).role = "assistant"
                   /\ out' = capitalize(SERVICE) \o <<" says: ">> \o Last(h2).content
                   /\ Len(h) = 1 => h2 = <<user, [role |-> "assistant",
                                                  content |-> Last(h2).content]>> ]_vars

\* C11 witness: the first turn of a session was answered; the history is the
\* typed text and the reply.
C11_Witness ==
    /\ pc = "input"
    /\ user_input = <<"Hello">>
    /\ out = <<"Openai", " says: ", "Use a deadbolt.">>
    /\ conversation_history =
           << [role |-> "user", content |-> <<"Hello">>],
              [role |-> "assistant", content |-> <<"Use a deadbolt.">>] >>

\* C12: the history is always a contiguous suffix of the chronological log
\* of the messages appended so far.  Step by step: a step that changes the
\* history drops some of its oldest entries, keeps the rest as they are and
\* in order, and puts exactly one new message, the one the step appends, at
\* the end (checked under SpecLong, where entries are evicted).
C12_HistoryIsLogSuffix ==
    [][ LET h == conversation_history
            h2 == conversation_history'
        IN  h2 # h
            => /\ Len(h2) >= 1
               /\ \E k \in 0..Len(h) :
                      /\ Len(h2) = Len(h) - k + 1
                      /\ \A i \in 1..(Len(h2) - 1) : h2[i] = h[i + k]
               /\ IF pc = "input"
                  THEN Last(h2) = [role |-> "user", content |-> user_input']
                  ELSE /\ Last(h2).role = "assistant"
                       /\ out' = capitalize(SERVICE) \o <<" says: ">> \o Last(h2).content
                       /\ SubSeq(h2, 1, Len(h)) = h ]_vars

\* C12 witness: the oldest message, a user message, has been evicted from a
\* full history and a reply appended after that.
C12_Witness ==
    /\ Len(conversation_history) = MaxMessages + 1
    /\ conversation_history[1].role = "assistant"
    /\ Last(conversation_history).role = "assistant"

\* C13: an input that validation rejects changes nothing: the current
\* service, the current model and the history stay as they are, no command
\* is carried out and no backend is called; the loop prints the validation
\* message and reads the next input.  This holds also when the rejected
\* text has the form of a command.
C13_RejectedInputChangesNothing ==
    [][ (pc = "input" /\ ~validate_input(user_input').is_valid)
        => /\ SERVICE' = SERVICE
           /\ MODEL' = MODEL
           /\ conversation_history' = conversation_history
           /\ deep_search' = deep_search
           /\ pc' = "input"
           /\ call' = NoCall
           /\ attempts' = attempts
           /\ out' = validate_input(user_input').error_msg ]_vars

\* C13 witness: 'switch to openai>' was rejected in a grok session that has
\* a history.
C13_Witness ==
    /\ pc = "input"
    /\ user_input = <<"switch to", Blank, "openai", ">">>
    /\ out = validate_input(user_input).error_msg
    /\ out # <<>>
    /\ SERVICE = GROK
    /\ Len(conversation_history) = 2

----------------------------------------------------------------------------
(* Properties of the pure helpers.                                         *)

\* C14: validate_input applies its rules in a fixed order and stops at the
\* first that rejects: a text that is empty or only whitespace is rejected
\* as empty, even if longer than 500 characters; otherwise a text of more
\* than 500 characters is rejected as too long, even if it holds a
\* forbidden character; otherwise a text holding one of < > { } is rejected
\* as invalid; otherwise it is accepted with an empty message, a text of
\* exactly 500 characters included.
C14_ValidationOrder ==
    (pc = "returned" /\ arg.fn = "validate_input")
    => LET s == arg.user_input
           no(msg) == [is_valid |-> FALSE, error_msg |-> <<msg>>]
       IN  IF \A i \in 1..Len(s) : s[i] \in {Blank, BLANKS}
           THEN result = no("Input cannot be empty. Please provide some details.")
           ELSE IF len(s) >= 501
           THEN result = no("Input is too long. Please keep it under 500 characters.")
           ELSE IF \E i \in 1..Len(s) : s[i] \in {"<", ">", "{", "}"}
           THEN result = no("Input contains invalid characters (e.g., <, >, {}).")
           ELSE result = [is_valid |-> TRUE, error_msg |-> <<>>]

\* C14 witness: 501 blanks were rejected as empty, not as too long.
C14_Witness ==
    /\ pc = "returned"
    /\ arg = [fn |-> "validate_input", user_input |-> <<BLANKS, Blank>>]
    /\ len(arg.user_input) = 501
    /\ result.is_valid = FALSE
    /\ result.error_msg = <<"Input cannot be empty. Please provide some details.">>

\* C15: for every history h and every maximum m >= 0, the trimmed history
\* has min(len(h), m) entries, and they are the last min(len(h), m) entries
\* of h in their order.
C15_TrimKeepsLastMin ==
    (pc = "returned" /\ arg.fn = "trim_conversation_history")
    => LET h == arg.history
           m == arg.max_messages
           k == IF Len(h) <= m THEN Len(h) ELSE m
       IN  /\ Len(result) = k
           /\ \A i \in 1..k : result[i] = h[Len(h) - k + i]

----------------------------------------------------------------------------
(* Properties of the dispatcher and of the adapters called directly.       *)

\* C16: get_response hands each adapter exactly the parameters the adapter
\* declares: grok gets prompt, model, use_deep_search, conversation_history,
\* grok_url and grok_headers; openai gets prompt, model,
\* conversation_history and openai_client; cohere gets prompt, model,
\* conversation_history and co_client.  The handle is the one of the
\* service's own provider and no adapter gets a handle of another.
C16_OnlyDeclaredParameters ==
    pc = "adapter"
    => LET common == {"prompt", "model", "conversation_history"}
           handles == {"grok_url", "grok_headers", "openai_client", "co_client"}
           own == CASE SERVICE = <<"grok">>   -> {"grok_url", "grok_headers"}
                    [] SERVICE = <<"openai">> -> {"openai_client"}
                    [] SERVICE = <<"cohere">> -> {"co_client"}
           names == DOMAIN call.args
       IN  /\ names = common \cup own
                          \cup (IF SERVICE = <<"grok">> THEN {"use_deep_search"} ELSE {})
           /\ names \cap (handles \ own) = {}
           /\ \A k \in own : call.args[k] # None
           /\ call.args.model = MODEL
           /\ call.args.conversation_history = conversation_history

\* C16 witness: cohere is about to be called with the two-message history.
C16_Witness ==
    /\ pc = "adapter"
    /\ call.handler = "get_cohere_response"
    /\ DOMAIN call.args = {"prompt", "model", "conversation_history", "co_client"}
    /\ call.args.co_client = <<"co_client">>
    /\ Len(call.args.conversation_history) = 2

\* The handle an adapter needs is absent from the call's arguments.
HandleAbsent(a) ==
    CASE a.fn = "get_grok_response" ->
             a.args.grok_url = <<"None">> \/ a.args.grok_headers = <<"None">>
      [] a.fn = "get_openai_response" -> a.args.openai_client = <<"None">>
      [] a.fn = "get_cohere_response" -> a.args.co_client = <<"None">>

\* C17: each adapter called with its required client or credential handle
\* absent rejects the call before any backend interaction: it ends by
\* raising, no attempt is made and no request is sent.
C17_AbsentHandleFailsFast ==
    HandleAbsent(arg)
    => /\ attempts = 0
       /\ pc \in {"adapter", "raised"}
       /\ pc = "raised" => result.kind = "raise" /\ result.sent = [kind |-> "none"]

\* C18: the cohere adapter sends the history as a chat history of the same
\* length, content and order, with role user as "User", role assistant as
\* "Chatbot" and any other role as "System".
C18_CohereRoles ==
    (arg.fn = "get_cohere_response" /\ pc \in {"returned", "raised"}
        /\ result.sent # [kind |-> "none"])
    => LET h == arg.args.conversation_history
           sent == result.sent.chat_history
       IN  /\ Len(sent) = Len(h)
           /\ \A i \in 1..Len(h) :
                  /\ sent[i].message = h[i].content
                  /\ sent[i].role = CASE h[i].role = "user"      -> "User"
                                      [] h[i].role = "assistant" -> "Chatbot"
                                      [] OTHER                   -> "System"

\* C19: a call of get_response, and of the adapter it calls, leaves the
\* caller's history, service, model, prompt and flag as they were, whatever
\* the service, the model, the flag and the outcome: none of its steps
\* changes them, and the history the adapter is given is the caller's.
C19_DispatchIsPure ==
    [][ /\ conversation_history' = conversation_history
        /\ SERVICE' = SERVICE
        /\ MODEL' = MODEL
        /\ user_input' = user_input
        /\ deep_search' = deep_search
        /\ pc' = "adapter" => call'.args.conversation_history = conversation_history
      ]_vars

\* C19 witness: a grok call with the flag set, the two-message history and
\* a transport failure has returned its soft-failure text.
C19_Witness ==
    /\ pc = "returned"
    /\ SERVICE = <<"grok">>
    /\ deep_search = TRUE
    /\ Len(out) >= 1 /\ out[1] = "Oops"
    /\ conversation_history = TestHistory

----------------------------------------------------------------------------
(* Progress of a user turn.                                                *)

\* C20: a user turn that has reached the adapter completes: provided each
\* backend attempt ends, the loop gets back to the prompt, having appended
\* a reply or printed an error, and until then no further input is read.
C20_TurnCompletes ==
    /\ (pc = "adapter")
           ~> (/\ pc = "input"
               /\ \/ out[1] = SorryPrefix
                  \/ IF conversation_history = <<>> THEN FALSE
                     ELSE Last(conversation_history).role = "assistant")
    /\ [][pc = "adapter" => user_input' = user_input]_vars

\* C20 witness: a grok turn ended with an error after its third attempt.
C20_Witness ==
    /\ pc = "input"
    /\ SERVICE = <<"grok">>
    /\ attempts = 3
    /\ out[1] = SorryPrefix
    /\ Last(conversation_history).role = "user"

----------------------------------------------------------------------------
(* The history a user turn hands over.                                     *)

\* C21: on every user turn the history handed to get_response, and from
\* there to the adapter, is non-empty, has at most 10 entries and ends with
\* the user message of this turn; the adapter gets that same history, and
\* the turn's text as its prompt (checked under SpecLong, where the history
\* is full).
C21_HandedHistory ==
    [][ (pc = "input" /\ (pc' = "adapter" \/ out'[1] = SorryPrefix))
        => LET h == conversation_history'
           IN  /\ Len(h) >= 1
               /\ Len(h) <= 10
               /\ h[Len(h)] = [role |-> "user", content |-> user_input']
               /\ pc' = "adapter"
                  => /\ call'.args.conversation_history = h
                     /\ Len(call'.args.prompt) >= Len(user_input')
                     /\ SubSeq(call'.args.prompt, 1, Len(user_input')) = user_input'
      ]_vars

\* C21 witness: the adapter is entered with a full history of 10 messages,
\* cut from a longer one, that ends with this turn's text.
C21_Witness ==
    /\ pc = "adapter"
    /\ Len(call.args.conversation_history) = 10
    /\ call.args.conversation_history[1].role = "assistant"
    /\ Last(call.args.conversation_history) =
           [role |-> "user", content |-> <<"Hello">>]
    /\ call.args.prompt = <<"Hello">>
    /\ user_input = <<"Hello">>

====
